---- MODULE Spec2Model ----
(***************************************************************************)
(* Page-visibility classification and menu reconciliation of the ArcGIS    *)
(* Experience Builder menu generator (page_visibility_detector.py,         *)
(* menu_generator.py), and the deployment of menu.json (deploy.py).        *)
(*                                                                         *)
(* Python strings that the code searches or splits (hrefs, page labels,    *)
(* page ids, keywords) are sequences of one-character strings, so that     *)
(* `in`, `lower()` and `split('/page/')[-1]` are computed, not assumed.    *)
(* Strings the code only copies (menu labels, category names, colors) are  *)
(* TLA+ strings.  A Python dict is a sequence of [id, data] entries with   *)
(* distinct ids (insertion order), a JSON object with optional fields is a *)
(* function whose DOMAIN holds the fields that are present.                *)
(***************************************************************************)
EXTENDS Naturals, Sequences, FiniteSets, TLC

VARIABLES
    pc,             \* position of the running operation
    experience_id,  \* MenuGenerator.experience_id (None or an id)
    menu_data,      \* the menu tree handed to save_menu / reconciliation
    validate_visibility, \* save_menu's parameter
    platform,       \* the page collection the content platform holds
    config,         \* load_global_config(): the keys of ~/.config/arcgis/.env
    token,          \* value returned by get_arcgis_token
    requests,       \* network requests issued so far, in order
    exp_pages,      \* exp_data['pages'] of the fetched response
    i,              \* number of entries of exp_pages already classified
    visible_pages,  \* get_visible_pages: visible_pages dict
    hidden_pages,   \* get_visible_pages: hidden_pages dict
    report,         \* lines printed under "Hidden Pages:"
    visible_ids,    \* visible_page_ids used by the reconciliation loop
    result,         \* value returned by validate_menu_visibility
    removed_items,  \* removed_items list of validate_menu_visibility
    artifact,       \* content of menu.json
    hide,           \* last value returned by should_hide_page
    reason,         \* last value returned by get_hide_reason
    error,          \* exception caught by validate_menu_visibility (None: none)
    backups,        \* contents of the menu_backup_<timestamp>.json files
    commands,       \* subprocesses and HTTP requests of the deployment, in order
    valid,          \* value returned by validate_menu
    success,        \* deploy_to_github: success of the last run_command
    response,       \* what the POST to the menu API came back with
    dirty,          \* the working tree has changes git status reports
    unpushed,       \* the local branch has a commit the remote does not have
    github_success, \* full_deployment: github_success
    pythonanywhere_success, \* full_deployment: pythonanywhere_success
    returned        \* value returned by full_deployment

inputVars == << experience_id, menu_data, validate_visibility, platform, config >>
netVars == << token, requests, error >>
classifierVars == << exp_pages, i, visible_pages, hidden_pages, report >>
reconcileVars == << visible_ids, result, removed_items >>
ruleVars == << hide, reason >>
gitVars == << dirty, unpushed >>
deployVars == << backups, commands, valid, success, response, gitVars, github_success,
                 pythonanywhere_success, returned >>

vars == << pc, inputVars, netVars, classifierVars, reconcileVars, ruleVars, artifact,
           deployVars >>

-----------------------------------------------------------------------------
(* Bounds of the model.                                                    *)

\* pages of a fetched collection
MaxPages == 2
\* categories of a menu tree
MaxCats == 2
\* links of a menu tree handed to reconciliation, all categories together
MaxLinks == 3
\* links of a menu tree handed to a run of save_menu
MaxRunLinks == 2

-----------------------------------------------------------------------------
(* Python string primitives.                                               *)

\* c.lower() for one character
LowerChar(c) ==
    CASE c = "A" -> "a" [] c = "B" -> "b" [] c = "C" -> "c" [] c = "D" -> "d"
      [] c = "E" -> "e" [] c = "F" -> "f" [] c = "G" -> "g" [] c = "H" -> "h"
      [] c = "I" -> "i" [] c = "J" -> "j" [] c = "K" -> "k" [] c = "L" -> "l"
      [] c = "M" -> "m" [] c = "N" -> "n" [] c = "O" -> "o" [] c = "P" -> "p"
      [] c = "Q" -> "q" [] c = "R" -> "r" [] c = "S" -> "s" [] c = "T" -> "t"
      [] c = "U" -> "u" [] c = "V" -> "v" [] c = "W" -> "w" [] c = "X" -> "x"
      [] c = "Y" -> "y" [] c = "Z" -> "z" [] OTHER -> c

\* s.lower()
Lower(s) == [n \in 1..Len(s) |-> LowerChar(s[n])]

\* s[from:] starts with sub
StartsAt(s, sub, from) ==
    /\ from + Len(sub) - 1 <= Len(s)
    /\ SubSeq(s, from, from + Len(sub) - 1) = sub

\* sub in s
Contains(s, sub) == \E n \in 1..(Len(s) + 1) : StartsAt(s, sub, n)

\* s.find(sub) + 1: the first position where sub occurs in s (sub in s)
Find(s, sub) ==
    CHOOSE n \in 1..(Len(s) + 1) :
        /\ StartsAt(s, sub, n)
        /\ \A m \in 1..(n - 1) : ~StartsAt(s, sub, m)

\* s.split(sep): the pieces between the occurrences of sep, scanned left to
\* right without overlap
RECURSIVE Split(_, _)
Split(s, sep) ==
    IF ~Contains(s, sep)
    THEN << s >>
    ELSE LET n == Find(s, sep)
         IN  << SubSeq(s, 1, n - 1) >> \o Split(SubSeq(s, n + Len(sep), Len(s)), sep)

\* seq[-1]
Last(seq) == seq[Len(seq)]

\* any(keyword in s for keyword in keywords)
AnyIn(keywords, s) == \E kw \in keywords : Contains(s, kw)

\* d.get(key, default)
Get(d, key, default) == IF key \in DOMAIN d THEN d[key] ELSE default

\* the empty dict / a JSON object with no field
EmptyDict == [f \in {} |-> TRUE]

\* None, for the values the code compares with it or tests for truth
None == "None"

-----------------------------------------------------------------------------
(* page_visibility_detector.py: the rule set.                              *)

test_keywords ==
    { <<"t", "e", "s", "t">>,
      <<"b", "e", "t", "a">>,
      <<"o", "l", "d">>,
      <<"t", "e", "m", "p">>,
      <<"d", "r", "a", "f", "t">>,
      <<"d", "e", "v">>,
      <<"d", "e", "b", "u", "g">> }

construction_keywords ==
    { <<"c", "o", "n", "s", "t", "r", "u", "c", "t", "i", "o", "n">>,
      <<"w", "i", "p">>,
      <<"t", "o", "d", "o">>,
      <<"p", "e", "n", "d", "i", "n", "g">>,
      <<"c", "o", "m", "i", "n", "g", " ", "s", "o", "o", "n">> }

admin_keywords ==
    { <<"a", "d", "m", "i", "n">>,
      <<"i", "n", "t", "e", "r", "n", "a", "l">>,
      <<"p", "r", "i", "v", "a", "t", "e">>,
      <<"r", "e", "s", "t", "r", "i", "c", "t", "e", "d", " ", "a", "c", "c", "e", "s", "s">> }

hidden_page_ids ==
    { <<"p", "a", "g", "e", "_", "1", "5", "4">>,
      <<"p", "a", "g", "e", "_", "1", "8", "1">>,
      <<"p", "a", "g", "e", "_", "1", "2", "9">>,
      <<"p", "a", "g", "e", "_", "1", "3", "0">> }

\* the keyword list of get_hide_reason
reason_keywords ==
    { <<"t", "e", "s", "t">>,
      <<"b", "e", "t", "a">>,
      <<"o", "l", "d">> }

\* page_label = page_data.get('label', '').lower()
page_label(data) == Lower(Get(data, "label", << >>))

\* should_hide_page with the manual-override rule left out
should_hide_page_no_override(id, data) ==
    IF ~Get(data, "visible", TRUE) THEN TRUE
    ELSE IF ~Get(data, "showInNav", TRUE) THEN TRUE
    ELSE IF AnyIn(test_keywords, page_label(data)) THEN TRUE
    ELSE IF AnyIn(construction_keywords, page_label(data)) THEN TRUE
    ELSE IF AnyIn(admin_keywords, page_label(data)) THEN TRUE
    ELSE FALSE

should_hide_page(id, data) ==
    IF ~Get(data, "visible", TRUE) THEN TRUE
    ELSE IF ~Get(data, "showInNav", TRUE) THEN TRUE
    ELSE IF AnyIn(test_keywords, page_label(data)) THEN TRUE
    ELSE IF AnyIn(construction_keywords, page_label(data)) THEN TRUE
    ELSE IF AnyIn(admin_keywords, page_label(data)) THEN TRUE
    ELSE IF id \in hidden_page_ids THEN TRUE
    ELSE FALSE

get_hide_reason(id, data) ==
    IF ~Get(data, "visible", TRUE) THEN "Not visible"
    ELSE IF ~Get(data, "showInNav", TRUE) THEN "Hidden from navigation"
    ELSE IF AnyIn(reason_keywords, page_label(data)) THEN "Test/development page"
    ELSE IF id \in hidden_page_ids THEN "Manual override"
    ELSE "Unknown reason"

-----------------------------------------------------------------------------
(* Dicts as sequences of entries.                                          *)

\* set(d.keys())
Keys(d) == { d[n].id : n \in 1..Len(d) }

\* d[id] = data, for an id that is not yet a key of d
Put(d, id, data) == Append(d, [id |-> id, data |-> data])

-----------------------------------------------------------------------------
(* Input values.                                                           *)

Marker == <<"/", "p", "a", "g", "e", "/">>

page_84 == <<"p", "a", "g", "e", "_", "8", "4">>
page_95 == <<"p", "a", "g", "e", "_", "9", "5">>
page_96 == <<"p", "a", "g", "e", "_", "9", "6">>
page_154 == <<"p", "a", "g", "e", "_", "1", "5", "4">>

\* page keys the platform may hold; page_154 is a manual override
PageIds == { page_84, page_96, page_154 }

\* page labels: no keyword, rule 3 (also a reason keyword), rule 3 (not a
\* reason keyword), rule 4, rule 5
PageLabels ==
    { <<"M", "a", "p">>,
      <<"T", "e", "s", "t">>,
      <<"T", "e", "m", "p">>,
      <<"W", "I", "P">>,
      <<"A", "d", "m", "i", "n">> }

LabelField == { EmptyDict } \cup { [label |-> l] : l \in PageLabels }
VisibleField == { EmptyDict } \cup { [visible |-> b] : b \in BOOLEAN }
ShowInNavField == { EmptyDict } \cup { [showInNav |-> b] : b \in BOOLEAN }

\* every page record: each of label, visible, showInNav present or omitted
PageDatas ==
    { l @@ v @@ n : l \in LabelField, v \in VisibleField, n \in ShowInNavField }

\* the page records used in page collections
SampleDatas ==
    { [label |-> <<"M", "a", "p">>],
      [label |-> <<"B", "e", "t", "a">>, visible |-> FALSE],
      [label |-> <<"W", "I", "P">>, visible |-> TRUE, showInNav |-> TRUE],
      [showInNav |-> FALSE] }

Entries(datas) == { [id |-> k, data |-> d] : k \in PageIds, d \in datas }

DistinctIds(c) == \A m, n \in 1..Len(c) : m # n => c[m].id # c[n].id

\* page collections: at most MaxPages entries with distinct keys
Collections ==
    UNION { { c \in [1..n -> Entries(SampleDatas)] : DistinctIds(c) } : n \in 0..MaxPages }

-----------------------------------------------------------------------------
(* get_visible_pages, from the fetched response on: one page per step.     *)

\* the loop body: the page goes to exactly one of the two dicts
\* (variant that also records a hidden page as visible)
ClassifyBoth(vis, hid, id, data) ==
    IF should_hide_page(id, data)
    THEN [visible |-> Put(vis, id, data), hidden |-> Put(hid, id, data)]
    ELSE [visible |-> Put(vis, id, data), hidden |-> hid]

Classify(vis, hid, id, data) ==
    IF should_hide_page(id, data)
    THEN [visible |-> vis, hidden |-> Put(hid, id, data)]
    ELSE [visible |-> Put(vis, id, data), hidden |-> hid]

\* the "Hidden Pages:" lines
HiddenReport(hid) ==
    [n \in 1..Len(hid) |->
        [page_id |-> hid[n].id,
         label   |-> Get(hid[n].data, "label", <<"U", "n", "k", "n", "o", "w", "n">>),
         reason  |-> get_hide_reason(hid[n].id, hid[n].data)]]

ClassifyPage ==
    /\ pc = "classify"
    /\ i < Len(exp_pages)
    /\ LET e == exp_pages[i + 1]
           r == Classify(visible_pages, hidden_pages, e.id, e.data)
       IN  /\ visible_pages' = r.visible
           /\ hidden_pages' = r.hidden
    /\ i' = i + 1
    /\ UNCHANGED << pc, exp_pages, report >>
    /\ UNCHANGED << inputVars, netVars, reconcileVars, ruleVars, artifact >>
    /\ UNCHANGED deployVars

ReturnVisible ==
    /\ pc = "classify"
    /\ i = Len(exp_pages)
    /\ report' = HiddenReport(hidden_pages)
    /\ pc' = "classified"
    /\ UNCHANGED << exp_pages, i, visible_pages, hidden_pages >>
    /\ UNCHANGED << inputVars, netVars, reconcileVars, ruleVars, artifact >>
    /\ UNCHANGED deployVars

-----------------------------------------------------------------------------
(* menu.json: the file and the JSON document in it.                        *)

\* there is no menu.json
NoFile == [type |-> "missing"]

\* the file does not parse as JSON
InvalidJson == [type |-> "invalid"]

\* JSON values, with the Python type json.load gives them
JsonList(items) == [type |-> "list", items |-> items]
JsonDict(fields) == [type |-> "dict", fields |-> fields]
JsonString(value) == [type |-> "str", value |-> value]

\* the document json.dump writes for a dict of strings
DumpLink(link) == JsonDict([f \in DOMAIN link |-> JsonString(link[f])])

\* the document json.dump writes for a category
DumpCategory(category) ==
    JsonDict([f \in DOMAIN category |->
                IF f = "links"
                THEN JsonList([n \in 1..Len(category.links) |-> DumpLink(category.links[n])])
                ELSE JsonString(category[f])])

\* json.dump(menu_data, f, indent=2)
json_dump(menu) == JsonList([k \in 1..Len(menu) |-> DumpCategory(menu[k])])

-----------------------------------------------------------------------------
(* The classifier applied to one page.                                     *)

ShouldHidePage ==
    /\ pc = "rules"
    /\ hide' = should_hide_page(platform[1].id, platform[1].data)
    /\ pc' = "ruled"
    /\ UNCHANGED << reason, inputVars, netVars, classifierVars, reconcileVars, artifact >>
    /\ UNCHANGED deployVars

GetHideReason ==
    /\ pc = "ruled"
    /\ hide
    /\ reason' = get_hide_reason(platform[1].id, platform[1].data)
    /\ pc' = "reasoned"
    /\ UNCHANGED << hide, inputVars, netVars, classifierVars, reconcileVars, artifact >>
    /\ UNCHANGED deployVars

\* the variables of the save_menu run, before it has done anything
\* the keys of the .env file the code reads
ConfigKeys ==
    { "ARCGIS_CLIENT_ID", "ARCGIS_CLIENT_SECRET", "MENU_API_PASSWORD", "MENU_API_BASE_URL" }

\* a .env file with every key
FullConfig == [k \in ConfigKeys |-> "value"]

\* the .env files that lack some of the keys
Configs(keys) ==
    { [k \in ConfigKeys \ missing |-> "value"] : missing \in SUBSET keys }

\* get_arcgis_credentials: config.get gives None for a key that is absent
get_arcgis_credentials(cfg) ==
    [client_id |-> Get(cfg, "ARCGIS_CLIENT_ID", None),
     client_secret |-> Get(cfg, "ARCGIS_CLIENT_SECRET", None)]

\* get_deployment_config: config.get gives None for a key that is absent
get_deployment_config(cfg) ==
    [menu_api_password |-> Get(cfg, "MENU_API_PASSWORD", None),
     menu_api_base_url |-> Get(cfg, "MENU_API_BASE_URL", None)]

NothingDone ==
    /\ token = None
    /\ requests = << >>
    /\ i = 0
    /\ visible_pages = << >>
    /\ hidden_pages = << >>
    /\ report = << >>
    /\ result = << >>
    /\ removed_items = << >>
    /\ hide = FALSE
    /\ reason = None
    /\ error = None

\* full_deployment has not started
NotDeployed ==
    /\ backups = {}
    /\ commands = << >>
    /\ valid = FALSE
    /\ success = FALSE
    /\ response = None
    /\ github_success = FALSE
    /\ pythonanywhere_success = FALSE
    /\ returned = FALSE

\* a repository with nothing to commit and nothing to push
CleanRepository ==
    /\ dirty = FALSE
    /\ unpushed = FALSE

\* no menu and no application: the operation under check uses neither
NoMenu ==
    /\ experience_id = None
    /\ menu_data = << >>
    /\ validate_visibility = TRUE
    /\ visible_ids = {}

InitRules ==
    /\ config = FullConfig
    /\ pc = "rules"
    /\ platform \in { << e >> : e \in Entries(PageDatas) }
    /\ exp_pages = << >>
    /\ NoMenu
    /\ artifact = NoFile
    /\ NothingDone
    /\ NotDeployed
    /\ CleanRepository

NextRules == ShouldHidePage \/ GetHideReason

SpecRules == InitRules /\ [][NextRules]_vars

InitClassify ==
    /\ config = FullConfig
    /\ pc = "classify"
    /\ exp_pages \in Collections
    /\ platform = exp_pages
    /\ NoMenu
    /\ artifact = NoFile
    /\ NothingDone
    /\ NotDeployed
    /\ CleanRepository

NextClassify == ClassifyPage \/ ReturnVisible

SpecClassify == InitClassify /\ [][NextClassify]_vars

-----------------------------------------------------------------------------
(* menu_generator.py: reconciliation (validate_menu_visibility, the loop). *)

\* the key after the first marker of the href
page_id_after_first(href) == Split(href, Marker)[2]

\* page_id = link['href'].split('/page/')[-1]
page_id_of(href) == Last(Split(href, Marker))

\* keeps a link only when its href holds a key of a visible page
KeepPageLinksOnly(link, visible) ==
    Contains(link.href, Marker) /\ page_id_of(link.href) \in visible

\* the branch of the loop body that appends the link to cleaned_links
KeepLink(link, visible) ==
    IF Contains(link.href, Marker)
    THEN page_id_of(link.href) \in visible
    ELSE TRUE

\* the cleaned links built by inserting at the front
RECURSIVE CleanLinksPrepend(_, _)
CleanLinksPrepend(links, visible) ==
    IF links = << >>
    THEN << >>
    ELSE CleanLinksPrepend(Tail(links), visible)
            \o (IF KeepLink(Head(links), visible) THEN << Head(links) >> ELSE << >>)

\* cleaned_links after the inner loop over category['links']
RECURSIVE CleanLinks(_, _)
CleanLinks(links, visible) ==
    IF links = << >>
    THEN << >>
    ELSE (IF KeepLink(Head(links), visible) THEN << Head(links) >> ELSE << >>)
            \o CleanLinks(Tail(links), visible)

\* reports every link that has a page key, kept or not
RECURSIVE RemovedOfAllPageLinks(_, _, _)
RemovedOfAllPageLinks(name, links, visible) ==
    IF links = << >>
    THEN << >>
    ELSE (IF Contains(Head(links).href, Marker)
          THEN << [category |-> name,
                   label    |-> Head(links).label,
                   page_id  |-> page_id_of(Head(links).href)] >>
          ELSE << >>)
            \o RemovedOfAllPageLinks(name, Tail(links), visible)

\* what the inner loop appends to removed_items for one category
RECURSIVE RemovedOf(_, _, _)
RemovedOf(name, links, visible) ==
    IF links = << >>
    THEN << >>
    ELSE (IF ~KeepLink(Head(links), visible)
          THEN << [category |-> name,
                   label    |-> Head(links).label,
                   page_id  |-> page_id_of(Head(links).href)] >>
          ELSE << >>)
            \o RemovedOf(name, Tail(links), visible)

\* keeps every category
AlwaysKept(cleaned_links) == TRUE

\* if cleaned_links:
CategoryKept(cleaned_links) == cleaned_links # << >>

\* builds a new category dict from the name and the links alone
CopyWithoutColor(category, cleaned_links) ==
    [category |-> category.category, links |-> cleaned_links]

\* category_copy = category.copy(); category_copy['links'] = cleaned_links
CopyCategory(category, cleaned_links) == [category EXCEPT !.links = cleaned_links]

\* cleaned_menu after the outer loop over menu_data
RECURSIVE CleanedMenu(_, _)
CleanedMenu(menu, visible) ==
    IF menu = << >>
    THEN << >>
    ELSE LET category == Head(menu)
             cleaned_links == CleanLinks(category.links, visible)
         IN  (IF CategoryKept(cleaned_links)
              THEN << CopyCategory(category, cleaned_links) >>
              ELSE << >>)
                \o CleanedMenu(Tail(menu), visible)

\* removed_items after the outer loop over menu_data
RECURSIVE RemovedItems(_, _)
RemovedItems(menu, visible) ==
    IF menu = << >>
    THEN << >>
    ELSE RemovedOf(Head(menu).category, Head(menu).links, visible)
            \o RemovedItems(Tail(menu), visible)

-----------------------------------------------------------------------------
(* Menu trees.                                                             *)

\* the links menus are built from: a page link to page_84, a page link to
\* page_96, a link whose href ends with the marker (empty key), an external
\* link, and a link whose href holds the marker twice
MenuLinks ==
    { [label |-> "National", term |-> "National",
       href |-> <<"e", "/", "p", "a", "g", "e", "/", "p", "a", "g", "e", "_", "8", "4">>],
      [label |-> "Trucks", term |-> "Trucks Trailers",
       href |-> <<"e", "/", "p", "a", "g", "e", "/", "p", "a", "g", "e", "_", "9", "6">>],
      [label |-> "Blank", term |-> "Blank",
       href |-> <<"e", "/", "p", "a", "g", "e", "/">>],
      [label |-> "External", term |-> "External",
       href |-> <<"x", ".", "o", "r", "g">>],
      [label |-> "Moved", term |-> "Moved",
       href |-> <<"e", "/", "p", "a", "g", "e", "/", "p", "a", "g", "e", "_", "9", "6",
                  "/", "p", "a", "g", "e", "/", "p", "a", "g", "e", "_", "8", "4">>] }

CategoryNames == << "1 Situation Summary", "2 Weather", "4 Logistics", "6 SADS & DRO" >>
CategoryColors == << "btn-purple", "btn-blue", "btn-green", "btn-orange" >>

\* sequences of at most n links
LinkSeqs(n) == UNION { [1..k -> MenuLinks] : k \in 0..n }

\* the lists of n link sequences holding at most budget links in all
RECURSIVE LinkLists(_, _)
LinkLists(n, budget) ==
    IF n = 0
    THEN { << >> }
    ELSE UNION { { << ls >> \o rest : rest \in LinkLists(n - 1, budget - Len(ls)) }
                 : ls \in LinkSeqs(budget) }

\* the tree whose k-th category holds the links lists[k]
TreeOf(lists) ==
    [k \in 1..Len(lists) |->
        [category |-> CategoryNames[k], color |-> CategoryColors[k], links |-> lists[k]]]

\* menu trees of at most MaxCats categories and at most budget links
TreesUpTo(budget) ==
    UNION { { TreeOf(lists) : lists \in LinkLists(n, budget) } : n \in 0..MaxCats }

\* the trees reconciliation is applied to
Trees == TreesUpTo(MaxLinks)

\* the trees save_menu is run with
RunTrees == TreesUpTo(MaxRunLinks)

\* the visible sets a tree is reconciled against
VisibleSets == SUBSET { page_84, page_96, << >> }

\* the total number of links of a tree
RECURSIVE LinkCount(_)
LinkCount(menu) ==
    IF menu = << >> THEN 0 ELSE Len(Head(menu).links) + LinkCount(Tail(menu))

\* trees with categories that have no 'links' key: a tree of RunTrees in
\* which some of the categories without links have lost the key
WithoutLinksKey(tree, ks) ==
    [k \in 1..Len(tree) |->
        IF k \in ks
        THEN [category |-> tree[k].category, color |-> tree[k].color]
        ELSE tree[k]]

MalformedTrees ==
    UNION { { WithoutLinksKey(t, ks) :
                ks \in (SUBSET { k \in 1..Len(t) : t[k].links = << >> }) \ { {} } }
            : t \in RunTrees }

-----------------------------------------------------------------------------
(* Reconciliation as an operation of its own.                              *)

\* some category of the tree has no 'links' key
LacksLinks(menu) == \E k \in 1..Len(menu) : "links" \notin DOMAIN menu[k]

\* validate_menu_visibility, lines 182-218: the two loops and the return;
\* category['links'] of a category without that key raises KeyError, which
\* leaves the loops for the except branch
Reconcile ==
    /\ pc = "reconcile"
    /\ IF LacksLinks(menu_data)
       THEN /\ error' = "KeyError"
            /\ pc' = "except"
            /\ UNCHANGED << result, removed_items >>
       ELSE /\ result' = CleanedMenu(menu_data, visible_ids)
            /\ removed_items' = RemovedItems(menu_data, visible_ids)
            /\ pc' = "validated"
            /\ error' = error
    /\ UNCHANGED << visible_ids, token, requests >>
    /\ UNCHANGED << inputVars, classifierVars, ruleVars, artifact >>
    /\ UNCHANGED deployVars

InitReconcile ==
    /\ config = FullConfig
    /\ pc = "reconcile"
    /\ menu_data \in Trees
    /\ visible_ids \in VisibleSets
    /\ experience_id = "exp"
    /\ validate_visibility = TRUE
    /\ platform = << >>
    /\ exp_pages = << >>
    /\ artifact = NoFile
    /\ NothingDone
    /\ NotDeployed
    /\ CleanRepository

NextReconcile == Reconcile

SpecReconcile == InitReconcile /\ [][NextReconcile]_vars

-----------------------------------------------------------------------------
(* save_menu with its visibility validation, as main() runs it.            *)

\* the page collections the platform holds in the runs of save_menu
PlatformSamples ==
    { << [id |-> page_84, data |-> [label |-> <<"M", "a", "p">>]],
         [id |-> page_96, data |-> [label |-> <<"B", "e", "t", "a">>, visible |-> FALSE]] >>,
      << [id |-> page_96, data |-> [label |-> <<"W", "I", "P">>, visible |-> TRUE,
                                    showInNav |-> TRUE]] >>,
      << [id |-> page_96, data |-> [label |-> <<"M", "a", "p">>]] >> }

\* save_menu, validate_visibility false: the tree is written as it is
SaveUnvalidated ==
    /\ pc = "start"
    /\ ~validate_visibility
    /\ artifact' = json_dump(menu_data)
    /\ pc' = "saved"
    /\ UNCHANGED << inputVars, netVars, classifierVars, reconcileVars, ruleVars >>
    /\ UNCHANGED deployVars

\* the category has a link, or no 'links' key at all
HasContent(category) == "links" \notin DOMAIN category \/ category.links # << >>

\* a skip that still leaves out the categories without links
SkipValidationDroppingEmpty ==
    /\ pc = "start"
    /\ validate_visibility
    /\ experience_id = None
    /\ result' = SelectSeq(menu_data, HasContent)
    /\ pc' = "validated"
    /\ UNCHANGED << visible_ids, removed_items >>
    /\ UNCHANGED << inputVars, netVars, classifierVars, ruleVars, artifact >>
    /\ UNCHANGED deployVars

\* validate_menu_visibility, lines 174-176: no experience id
SkipValidation ==
    /\ pc = "start"
    /\ validate_visibility
    /\ experience_id = None
    /\ result' = menu_data
    /\ pc' = "validated"
    /\ UNCHANGED << visible_ids, removed_items >>
    /\ UNCHANGED << inputVars, netVars, classifierVars, ruleVars, artifact >>
    /\ UNCHANGED deployVars

\* the tokens the endpoint can answer the credentials with: none for an
\* exchange that lacks the client id or the client secret
Tokens(creds) ==
    IF creds.client_id = None \/ creds.client_secret = None
    THEN { None }
    ELSE { "access_token", None }

\* get_arcgis_token: one POST with whatever get_arcgis_credentials returned;
\* an access token, no access token in the response (None), or an exception
\* of the request or of response.json()
GetToken ==
    /\ pc = "start"
    /\ validate_visibility
    /\ experience_id # None
    /\ requests' = Append(requests, "token")
    /\ \/ /\ token' \in Tokens(get_arcgis_credentials(config))
          /\ error' = error
          /\ pc' = "fetch"
       \/ /\ token' = token
          /\ error' = "token request"
          /\ pc' = "except"
    /\ UNCHANGED << inputVars, classifierVars, reconcileVars, ruleVars, artifact >>
    /\ UNCHANGED deployVars

\* get_visible_pages, lines 89-97: one GET with whatever get_arcgis_token
\* returned; the response holds the platform's pages, holds no 'pages', or
\* the request or response.json() raises
FetchPages ==
    /\ pc = "fetch"
    /\ requests' = Append(requests, "pages")
    /\ \/ /\ exp_pages' = platform
          /\ error' = error
          /\ pc' = "classify"
       \/ /\ exp_pages' = exp_pages
          /\ error' = error
          /\ pc' = "classified"
       \/ /\ exp_pages' = exp_pages
          /\ error' = "page fetch"
          /\ pc' = "except"
    /\ UNCHANGED << token, i, visible_pages, hidden_pages, report >>
    /\ UNCHANGED << inputVars, reconcileVars, ruleVars, artifact >>
    /\ UNCHANGED deployVars

\* the visible keys taken from the pages of the platform, whatever the
\* classifier returned
TakeVisibleIdsOfPlatform ==
    /\ pc = "classified"
    /\ visible_ids' = Keys(platform)
    /\ pc' = "reconcile"
    /\ UNCHANGED << result, removed_items >>
    /\ UNCHANGED << inputVars, netVars, classifierVars, ruleVars, artifact >>
    /\ UNCHANGED deployVars

\* validate_menu_visibility, lines 179-183: the visible keys are taken
TakeVisibleIds ==
    /\ pc = "classified"
    /\ visible_ids' = Keys(visible_pages)
    /\ pc' = "reconcile"
    /\ UNCHANGED << result, removed_items >>
    /\ UNCHANGED << inputVars, netVars, classifierVars, ruleVars, artifact >>
    /\ UNCHANGED deployVars

\* validate_menu_visibility, lines 220-223: the original menu is returned
ExceptFallback ==
    /\ pc = "except"
    /\ result' = menu_data
    /\ pc' = "validated"
    /\ UNCHANGED << visible_ids, removed_items >>
    /\ UNCHANGED << inputVars, netVars, classifierVars, ruleVars, artifact >>
    /\ UNCHANGED deployVars

\* save_menu, lines 237-239
WriteArtifact ==
    /\ pc = "validated"
    /\ artifact' = json_dump(result)
    /\ pc' = "saved"
    /\ UNCHANGED << inputVars, netVars, classifierVars, reconcileVars, ruleVars >>
    /\ UNCHANGED deployVars

\* the content of menu.json before the run: the file an earlier run wrote
PreviousMenu ==
    << [category |-> "1 Situation Summary", color |-> "btn-purple",
        links |-> << [label |-> "National", term |-> "National",
                      href |-> <<"e", "/", "p", "a", "g", "e", "/", "p", "a", "g", "e", "_", "8", "4">>] >>] >>

Init ==
    /\ pc = "start"
    /\ menu_data \in RunTrees \cup MalformedTrees
    /\ artifact = json_dump(PreviousMenu)
    /\ experience_id \in { None, "exp" }
    /\ config \in Configs({ "ARCGIS_CLIENT_ID", "ARCGIS_CLIENT_SECRET" })
    /\ validate_visibility \in BOOLEAN
    /\ platform \in PlatformSamples
    /\ exp_pages = << >>
    /\ visible_ids = {}
    /\ NothingDone
    /\ NotDeployed
    /\ CleanRepository

Next ==
    \/ SaveUnvalidated
    \/ SkipValidation
    \/ GetToken
    \/ FetchPages
    \/ ClassifyPage
    \/ ReturnVisible
    \/ TakeVisibleIds
    \/ Reconcile
    \/ ExceptFallback
    \/ WriteArtifact

Spec == Init /\ [][Next]_vars

-----------------------------------------------------------------------------
(* deploy.py: the content of menu.json that validate_menu looks at.        *)

\* a link dict with its three fields
FullLink ==
    [label |-> JsonString("National"), href |-> JsonString("e/page/page_84"),
     term |-> JsonString("National")]

\* the dict with only the fields of the set
Only(fields, keep) == [f \in (DOMAIN fields) \cap keep |-> fields[f]]

\* what json.load can give for a link: a dict with any of the three fields,
\* or a value that is no dict
LinkDocuments ==
    { JsonDict(Only(FullLink, keep)) : keep \in SUBSET { "label", "href", "term" } }
        \cup { JsonString("National") }

\* what json.load can give for the 'links' field: lists, or a value that is
\* no list
LinksDocuments ==
    { JsonList(<< >>) }
        \cup { JsonList(<< l >>) : l \in LinkDocuments }
        \cup { JsonList(<< JsonDict(FullLink), l >>) : l \in LinkDocuments }
        \cup { JsonString("none") }

\* what json.load can give for a category: a dict with any of the three
\* fields, or a value that is no dict
CategoryDocuments ==
    { JsonDict(Only([category |-> JsonString("1 Situation Summary"),
                     color |-> JsonString("btn-purple"),
                     links |-> links], keep)) :
        links \in LinksDocuments, keep \in SUBSET { "category", "color", "links" } }
        \cup { JsonString("1 Situation Summary") }

\* a category that passes every check
FullCategory ==
    JsonDict([category |-> JsonString("2 Response"), color |-> JsonString("btn-red"),
              links |-> JsonList(<< JsonDict(FullLink) >>)])

\* the states menu.json can be in when the deployment starts
Documents ==
    { NoFile, InvalidJson, JsonString("menu"), JsonDict(FullLink), JsonList(<< >>) }
        \cup { JsonList(<< c >>) : c \in CategoryDocuments }
        \cup { JsonList(<< FullCategory, c >>) : c \in CategoryDocuments }

\* validate_menu without the check of a link's 'term'
validate_menu_no_term(doc) ==
    /\ doc.type = "list"
    /\ \A k \in 1..Len(doc.items) :
          /\ doc.items[k].type = "dict"
          /\ \A field \in { "category", "color", "links" } :
                field \in DOMAIN doc.items[k].fields
          /\ doc.items[k].fields.links.type = "list"
          /\ \A n \in 1..Len(doc.items[k].fields.links.items) :
                /\ doc.items[k].fields.links.items[n].type = "dict"
                /\ \A field \in { "label", "href" } :
                      field \in DOMAIN doc.items[k].fields.links.items[n].fields

required_fields == { "category", "color", "links" }
link_fields == { "label", "href", "term" }

\* validate_menu, lines 161-169: the checks of one link
ValidLink(link) ==
    IF link.type # "dict" THEN FALSE
    ELSE \A field \in link_fields : field \in DOMAIN link.fields

\* validate_menu, lines 146-169: the checks of one category
ValidCategory(category) ==
    IF category.type # "dict" THEN FALSE
    ELSE IF \E field \in required_fields : field \notin DOMAIN category.fields THEN FALSE
    ELSE IF category.fields.links.type # "list" THEN FALSE
    ELSE \A n \in 1..Len(category.fields.links.items) :
            ValidLink(category.fields.links.items[n])

\* validate_menu: FileNotFoundError and JSONDecodeError give False, then the
\* checks of the loaded value
validate_menu(doc) ==
    IF doc = NoFile THEN FALSE
    ELSE IF doc = InvalidJson THEN FALSE
    ELSE IF doc.type # "list" THEN FALSE
    ELSE \A k \in 1..Len(doc.items) : ValidCategory(doc.items[k])

-----------------------------------------------------------------------------
(* deploy.py: full_deployment.  A subprocess ends with exit status zero or *)
(* not; the POST comes back with a status and a body, or not at all.       *)

generatorVars == << inputVars, netVars, classifierVars, reconcileVars, ruleVars >>

\* the subprocess or request has been logged
Ran(what) == \E n \in 1..Len(commands) : commands[n] = what

\* the outcomes of the POST: a 2xx status with a JSON body, a 2xx status with
\* a body that is no JSON, another status, no response (RequestException)
Responses == { "2xx json", "2xx other", "non-2xx", "no response" }

\* backup_current_menu where a failed copy ends the run
BackupBlocking ==
    /\ pc = "d_start"
    /\ IF artifact = NoFile
       THEN /\ pc' = "d_validate"
            /\ UNCHANGED << backups, commands, dirty, returned >>
       ELSE /\ commands' = Append(commands, "cp")
            /\ \/ /\ backups' = backups \cup { artifact }
                  /\ dirty' \in { dirty, TRUE }
                  /\ pc' = "d_validate"
                  /\ returned' = returned
               \/ /\ backups' = backups
                  /\ dirty' = dirty
                  /\ pc' = "d_done"
                  /\ returned' = FALSE
    /\ UNCHANGED << success, valid, response, unpushed, github_success, pythonanywhere_success >>
    /\ UNCHANGED << generatorVars, artifact >>

\* a backup after which the run goes straight to publishing
BackupThenPublish ==
    /\ pc = "d_start"
    /\ IF artifact = NoFile
       THEN UNCHANGED << backups, commands, dirty >>
       ELSE /\ commands' = Append(commands, "cp")
            /\ \/ /\ backups' = backups \cup { artifact }
                  /\ dirty' \in { dirty, TRUE }
               \/ /\ backups' = backups
                  /\ dirty' = dirty
    /\ pc' = "d_status"
    /\ UNCHANGED << success, valid, response, unpushed, github_success, pythonanywhere_success,
                    returned >>
    /\ UNCHANGED << generatorVars, artifact >>

\* backup_current_menu: cp menu.json menu_backup_<timestamp>.json if the file
\* exists; an exception is caught and the run goes on.  The copy is a new
\* file of the working tree, which git status reports unless it is ignored.
BackupCurrentMenu ==
    /\ pc = "d_start"
    /\ IF artifact = NoFile
       THEN UNCHANGED << backups, commands, dirty >>
       ELSE /\ commands' = Append(commands, "cp")
            /\ \/ /\ backups' = backups \cup { artifact }
                  /\ dirty' \in { dirty, TRUE }
               \/ /\ backups' = backups
                  /\ dirty' = dirty
    /\ pc' = "d_validate"
    /\ UNCHANGED << success, valid, response, unpushed, github_success, pythonanywhere_success,
                    returned >>
    /\ UNCHANGED << generatorVars, artifact >>

\* full_deployment going on to publish whatever validate_menu returned
ValidateMenuNoGate ==
    /\ pc = "d_validate"
    /\ valid' = validate_menu(artifact)
    /\ pc' = "d_status"
    /\ UNCHANGED << success, backups, commands, response, gitVars, github_success,
                    pythonanywhere_success, returned >>
    /\ UNCHANGED << generatorVars, artifact >>

\* full_deployment, lines 190-193: validate_menu and the return on failure
ValidateMenu ==
    /\ pc = "d_validate"
    /\ valid' = validate_menu(artifact)
    /\ IF valid'
       THEN pc' = "d_status" /\ returned' = returned
       ELSE pc' = "d_done" /\ returned' = FALSE
    /\ UNCHANGED << success, backups, commands, response, gitVars, github_success,
                    pythonanywhere_success >>
    /\ UNCHANGED << generatorVars, artifact >>

\* a status check after which a clean tree is pushed all the same
CheckGitStatusPushing ==
    /\ pc = "d_status"
    /\ \E changes \in { dirty, FALSE } :
          IF ~changes
          THEN /\ commands' = Append(Append(commands, "git status"), "git push")
               /\ unpushed' = FALSE
               /\ github_success' = TRUE
               /\ pc' = "d_http"
          ELSE /\ commands' = Append(commands, "git status")
               /\ unpushed' = unpushed
               /\ github_success' = github_success
               /\ pc' = "d_add"
    /\ UNCHANGED << success, backups, valid, response, dirty, pythonanywhere_success, returned >>
    /\ UNCHANGED << generatorVars, artifact >>

\* deploy_to_github, lines 48-55: git status --porcelain; a nonzero exit
\* status gives empty output, which reads as no changes
CheckGitStatus ==
    /\ pc = "d_status"
    /\ commands' = Append(commands, "git status")
    /\ \E changes \in { dirty, FALSE } :
          IF ~changes
          THEN github_success' = TRUE /\ pc' = "d_http"
          ELSE github_success' = github_success /\ pc' = "d_add"
    /\ UNCHANGED << success, backups, valid, response, gitVars, pythonanywhere_success, returned >>
    /\ UNCHANGED << generatorVars, artifact >>

\* git add after whose failure the commit is still attempted
GitAddContinuing ==
    /\ pc = "d_add"
    /\ commands' = Append(commands, "git add")
    /\ success' \in BOOLEAN
    /\ pc' = "d_commit"
    /\ github_success' = github_success
    /\ UNCHANGED << backups, valid, response, gitVars, pythonanywhere_success, returned >>
    /\ UNCHANGED << generatorVars, artifact >>

\* deploy_to_github, lines 57-60: git add .
GitAdd ==
    /\ pc = "d_add"
    /\ commands' = Append(commands, "git add")
    /\ \/ success' = TRUE /\ pc' = "d_commit" /\ github_success' = github_success
       \/ success' = FALSE /\ pc' = "d_http" /\ github_success' = FALSE
    /\ UNCHANGED << backups, valid, response, gitVars, pythonanywhere_success, returned >>
    /\ UNCHANGED << generatorVars, artifact >>

\* deploy_to_github, lines 62-69: git commit -m
GitCommit ==
    /\ pc = "d_commit"
    /\ commands' = Append(commands, "git commit")
    /\ \/ /\ success' = TRUE
          /\ dirty' = FALSE
          /\ unpushed' = TRUE
          /\ pc' = "d_push"
          /\ github_success' = github_success
       \/ /\ success' = FALSE
          /\ UNCHANGED gitVars
          /\ pc' = "d_http"
          /\ github_success' = FALSE
    /\ UNCHANGED << backups, valid, response, pythonanywhere_success, returned >>
    /\ UNCHANGED << generatorVars, artifact >>

\* deploy_to_github where a rejected push ends the run
GitPushBlocking ==
    /\ pc = "d_push"
    /\ commands' = Append(commands, "git push")
    /\ \/ /\ success' = TRUE
          /\ unpushed' = FALSE
          /\ github_success' = TRUE
          /\ pc' = "d_http"
       \/ /\ success' = FALSE
          /\ unpushed' = unpushed
          /\ github_success' = FALSE
          /\ pc' = "d_summary"
    /\ UNCHANGED << backups, valid, response, dirty, pythonanywhere_success, returned >>
    /\ UNCHANGED << generatorVars, artifact >>

\* deploy_to_github, lines 71-72: git push
GitPush ==
    /\ pc = "d_push"
    /\ commands' = Append(commands, "git push")
    /\ \/ /\ success' = TRUE
          /\ unpushed' = FALSE
          /\ github_success' = TRUE
       \/ /\ success' = FALSE
          /\ unpushed' = unpushed
          /\ github_success' = FALSE
    /\ pc' = "d_http"
    /\ UNCHANGED << backups, valid, response, dirty, pythonanywhere_success, returned >>
    /\ UNCHANGED << generatorVars, artifact >>

\* deploy_to_pythonanywhere: no POST without a file that parses, and none
\* to the URL 'None/menu' of an absent base URL (requests raises before it
\* sends anything); then the POST, with or without a password, and True only
\* when response.ok and response.json() returned
DeployToPythonAnywhere ==
    /\ pc = "d_http"
    /\ IF \/ artifact \in { NoFile, InvalidJson }
          \/ get_deployment_config(config).menu_api_base_url = None
       THEN /\ pythonanywhere_success' = FALSE
            /\ UNCHANGED << commands, response >>
       ELSE /\ commands' = Append(commands, "POST")
            /\ response' \in Responses
            /\ pythonanywhere_success' = (response' = "2xx json")
    /\ pc' = "d_summary"
    /\ UNCHANGED << success, backups, valid, gitVars, github_success, returned >>
    /\ UNCHANGED << generatorVars, artifact >>

\* a summary that is True when either target succeeded
SummaryEither(github, pythonanywhere) == github \/ pythonanywhere

\* full_deployment, lines 203-213: the value returned after both targets
Summary(github, pythonanywhere) ==
    IF github /\ pythonanywhere THEN TRUE ELSE FALSE

ReturnSummary ==
    /\ pc = "d_summary"
    /\ returned' = Summary(github_success, pythonanywhere_success)
    /\ pc' = "d_done"
    /\ UNCHANGED << success, backups, commands, valid, response, gitVars, github_success,
                    pythonanywhere_success >>
    /\ UNCHANGED << generatorVars, artifact >>

\* main() of deploy.py is run again, on the repository and the files the
\* run before left; the working tree may have new changes by then
NextRun ==
    /\ pc = "d_done"
    /\ pc' = "d_start"
    /\ commands' = << >>
    /\ valid' = FALSE
    /\ success' = FALSE
    /\ response' = None
    /\ github_success' = FALSE
    /\ pythonanywhere_success' = FALSE
    /\ returned' = FALSE
    /\ dirty' \in { dirty, TRUE }
    /\ UNCHANGED << backups, unpushed >>
    /\ UNCHANGED << generatorVars, artifact >>

InitDeploy ==
    /\ pc = "d_start"
    /\ artifact \in Documents
    /\ config \in Configs({ "MENU_API_PASSWORD", "MENU_API_BASE_URL" })
    /\ dirty \in BOOLEAN
    /\ unpushed \in BOOLEAN
    /\ NoMenu
    /\ platform = << >>
    /\ exp_pages = << >>
    /\ NothingDone
    /\ NotDeployed

NextDeploy ==
    \/ BackupCurrentMenu
    \/ ValidateMenu
    \/ CheckGitStatus
    \/ GitAdd
    \/ GitCommit
    \/ GitPush
    \/ DeployToPythonAnywhere
    \/ ReturnSummary
    \/ NextRun

SpecDeploy == InitDeploy /\ [][NextDeploy]_vars

\* the steps of one run: the code is sequential, and a run that has started
\* takes its next step once the subprocess or request it waits for returns
RunStep ==
    \/ BackupCurrentMenu
    \/ ValidateMenu
    \/ CheckGitStatus
    \/ GitAdd
    \/ GitCommit
    \/ GitPush
    \/ DeployToPythonAnywhere
    \/ ReturnSummary

SpecDeployFair == SpecDeploy /\ WF_vars(RunStep)

-----------------------------------------------------------------------------
(* Properties of the classifier.                                           *)

\* the rules of the classifier, stated on the page record
Rule1(data) == "visible" \in DOMAIN data /\ data.visible = FALSE
Rule2(data) == "showInNav" \in DOMAIN data /\ data.showInNav = FALSE
Rule3(data) == "label" \in DOMAIN data /\ AnyIn(test_keywords, Lower(data.label))
Rule4(data) == "label" \in DOMAIN data /\ AnyIn(construction_keywords, Lower(data.label))
Rule5(data) == "label" \in DOMAIN data /\ AnyIn(admin_keywords, Lower(data.label))
Rule6(id) == id \in hidden_page_ids

\* the reason of the first rule of the ordered list that matches
FirstRuleReason(id, data) ==
    IF Rule1(data) THEN "Not visible"
    ELSE IF Rule2(data) THEN "Hidden from navigation"
    ELSE IF Rule3(data) THEN "Test/development page"
    ELSE IF Rule4(data) THEN "Under construction"
    ELSE IF Rule5(data) THEN "Admin/internal page"
    ELSE IF Rule6(id) THEN "Manual override"
    ELSE "none"

\* C8: partition totality.  While get_visible_pages classifies the fetched
\* collection, every page classified so far is in exactly one of visible_pages
\* and hidden_pages; when it returns, the two are disjoint, together hold every
\* key of the collection, and |visible| + |hidden| = |pages|.
PartitionTotal ==
    pc \in { "classify", "classified" } =>
        /\ Keys(visible_pages) \cap Keys(hidden_pages) = {}
        /\ Keys(visible_pages) \cup Keys(hidden_pages) = { exp_pages[n].id : n \in 1..i }
        /\ Cardinality(Keys(visible_pages)) + Cardinality(Keys(hidden_pages)) = i
        /\ Len(visible_pages) + Len(hidden_pages) = i
        /\ pc = "classified" =>
              Cardinality(Keys(visible_pages)) + Cardinality(Keys(hidden_pages))
                  = Len(exp_pages)

\* a collection of two pages has been split into one visible and one hidden page
PartitionWitness ==
    /\ pc = "classified"
    /\ Len(exp_pages) = 2
    /\ Len(visible_pages) = 1
    /\ Len(hidden_pages) = 1

\* C9: should_hide_page returns hidden iff at least one of rules 1-6 matches;
\* an omitted visible or showInNav counts as true and an omitted label matches
\* no keyword rule.
HiddenIffSomeRule ==
    pc \in { "ruled", "reasoned" } =>
        LET id == platform[1].id
            data == platform[1].data
        IN  hide <=> \/ Rule1(data) \/ Rule2(data) \/ Rule3(data)
                     \/ Rule4(data) \/ Rule5(data) \/ Rule6(id)

\* a record that omits label, visible and showInNav has been classified visible
VisibleByDefaultWitness ==
    /\ pc = "ruled"
    /\ DOMAIN platform[1].data = {}
    /\ ~hide

\* C10: the reason reported for a hidden page is the reason of the first rule
\* of the ordered list 1-6 that matches it.
ReasonIsFirstRule ==
    pc = "reasoned" =>
        reason = FirstRuleReason(platform[1].id, platform[1].data)

-----------------------------------------------------------------------------
(* Properties of reconciliation.                                           *)

\* the href holds the page-key marker
HasPageKey(link) == \E n \in 1..Len(link.href) : StartsAt(link.href, Marker, n)

NoPageKey(link) == ~HasPageKey(link)

\* the text after the last occurrence of the marker in the href
KeyAfterLastMarker(link) ==
    LET n == CHOOSE m \in 1..Len(link.href) :
                 /\ StartsAt(link.href, Marker, m)
                 /\ \A k \in (m + 1)..Len(link.href) : ~StartsAt(link.href, Marker, k)
    IN  SubSeq(link.href, n + Len(Marker), Len(link.href))

\* the link has a page key that is not in the visible set
Dropped(link) == HasPageKey(link) /\ KeyAfterLastMarker(link) \notin visible_ids

Occurs(x, seq) == \E n \in 1..Len(seq) : seq[n] = x

\* the categories of the result are told apart by their names, which are
\* distinct in every input tree
InResult(name) == \E k \in 1..Len(result) : result[k].category = name

ResultLinks(name) ==
    IF InResult(name)
    THEN result[CHOOSE k \in 1..Len(result) : result[k].category = name].links
    ELSE << >>

\* s is t with some elements left out
RECURSIVE IsSubsequence(_, _)
IsSubsequence(s, t) ==
    IF s = << >> THEN TRUE
    ELSE IF t = << >> THEN FALSE
    ELSE \/ Head(s) = Head(t) /\ IsSubsequence(Tail(s), Tail(t))
         \/ IsSubsequence(s, Tail(t))

\* the output category is the input category with some links left out
FilteredCategory(out, in) ==
    /\ DOMAIN out = DOMAIN in
    /\ out.category = in.category
    /\ out.color = in.color
    /\ IsSubsequence(out.links, in.links)

\* the output tree is the input tree with some categories left out and the
\* others filtered
RECURSIVE IsFilteredTree(_, _)
IsFilteredTree(out, in) ==
    IF out = << >> THEN TRUE
    ELSE IF in = << >> THEN FALSE
    ELSE \/ FilteredCategory(Head(out), Head(in)) /\ IsFilteredTree(Tail(out), Tail(in))
         \/ IsFilteredTree(out, Tail(in))

\* the links of a tree in input order, each with the name of its category
RECURSIVE NamedLinks(_)
NamedLinks(menu) ==
    IF menu = << >>
    THEN << >>
    ELSE [n \in 1..Len(Head(menu).links) |->
             [category |-> Head(menu).category, link |-> Head(menu).links[n]]]
            \o NamedLinks(Tail(menu))

DroppedNamed(nl) == Dropped(nl.link)

\* one (category, label, page-key) triple per dropped link, in input order
ExpectedReport ==
    LET dropped == SelectSeq(NamedLinks(menu_data), DroppedNamed)
    IN  [n \in 1..Len(dropped) |->
            [category |-> dropped[n].category,
             label    |-> dropped[n].link.label,
             page_id  |-> KeyAfterLastMarker(dropped[n].link)]]

\* the scenario of the specification: one category linking page_84, page_95
\* and page_96
ScenarioLink(label, key) == [label |-> label, term |-> label, href |-> <<"e">> \o Marker \o key]

ScenarioTree ==
    << [category |-> "2 Weather", color |-> "btn-blue",
        links |-> << ScenarioLink("Precipitation", page_84),
                     ScenarioLink("Fire Weather", page_95),
                     ScenarioLink("Trucks", page_96) >>] >>

\* C2: the tree returned by reconciliation has no category with an empty
\* links sequence: a category whose links are all dropped and a category that
\* had no link are absent from it, and with only page links and the empty
\* visible set the result is the empty sequence.
NoEmptyCategory ==
    pc = "validated" =>
        /\ \A k \in 1..Len(result) : result[k].links # << >>
        /\ \A k \in 1..Len(menu_data) :
              (\A n \in 1..Len(menu_data[k].links) : Dropped(menu_data[k].links[n]))
                  => ~InResult(menu_data[k].category)
        /\ ( /\ visible_ids = {}
             /\ \A k \in 1..Len(menu_data) : \A n \in 1..Len(menu_data[k].links) :
                    HasPageKey(menu_data[k].links[n]) )
              => result = << >>

\* a tree of a category that had no link and a category that lost all its
\* links has been reconciled to the empty tree
EmptiedCategoryWitness ==
    /\ pc = "validated"
    /\ result = << >>
    /\ removed_items # << >>
    /\ \E k \in 1..Len(menu_data) : menu_data[k].links = << >>
    /\ \E k \in 1..Len(menu_data) :
          /\ menu_data[k].links # << >>
          /\ \A n \in 1..Len(menu_data[k].links) : Dropped(menu_data[k].links[n])

\* C3: a link whose href holds the marker is kept iff the key after the last
\* marker is in the visible set; a link whose key is the empty string is
\* dropped whenever the empty string is no visible key.
PageLinkKeptIffVisible ==
    pc = "validated" =>
        \A k \in 1..Len(menu_data) : \A n \in 1..Len(menu_data[k].links) :
            LET link == menu_data[k].links[n]
            IN  HasPageKey(link) =>
                  /\ Occurs(link, ResultLinks(menu_data[k].category))
                        <=> KeyAfterLastMarker(link) \in visible_ids
                  /\ (KeyAfterLastMarker(link) = << >> /\ << >> \notin visible_ids)
                        => ~Occurs(link, ResultLinks(menu_data[k].category))

\* in one category, the link with two markers was kept for its last key and
\* the link with the empty key was dropped
LastKeyWitness ==
    /\ pc = "validated"
    /\ visible_ids = { page_84 }
    /\ \E k \in 1..Len(menu_data) :
          /\ Len(menu_data[k].links) = 2
          /\ Len(Split(menu_data[k].links[1].href, Marker)) = 3
          /\ KeyAfterLastMarker(menu_data[k].links[2]) = << >>
          /\ ResultLinks(menu_data[k].category) = << menu_data[k].links[1] >>

\* C4: a link without page key is never removed: a category holding one is in
\* the result, with all its links without page key, in their order.
ExternalLinksKept ==
    pc = "validated" =>
        \A k \in 1..Len(menu_data) :
            LET external == SelectSeq(menu_data[k].links, NoPageKey)
            IN  /\ external # << >> => InResult(menu_data[k].category)
                /\ SelectSeq(ResultLinks(menu_data[k].category), NoPageKey) = external

\* a category lost its page link and kept its external link, against the
\* empty visible set
ExternalKeptWitness ==
    /\ pc = "validated"
    /\ visible_ids = {}
    /\ Len(removed_items) = 1
    /\ \E k \in 1..Len(menu_data) :
          /\ Len(menu_data[k].links) = 2
          /\ Len(ResultLinks(menu_data[k].category)) = 1
          /\ NoPageKey(ResultLinks(menu_data[k].category)[1])

\* C5: reconciliation is a stable filter: the result is the input tree with
\* some categories left out, each remaining category with its name and color
\* and with some of its links left out; nothing is added or reordered.
StableFilter ==
    pc = "validated" =>
        /\ IsFilteredTree(result, menu_data)
        /\ \A k \in 1..Len(result) : \A j \in 1..Len(menu_data) :
              result[k].category = menu_data[j].category
                  => FilteredCategory(result[k], menu_data[j])

\* two categories survived in their order, the first with the second of its
\* two links, the second as it was
StableFilterWitness ==
    /\ pc = "validated"
    /\ Len(menu_data) = 2
    /\ Len(result) = 2
    /\ Len(menu_data[1].links) = 2
    /\ result[1].links = << menu_data[1].links[2] >>
    /\ result[2] = menu_data[2]

\* C6, as stated: a tree for which no removal is reported is returned as it
\* is.
CleanTreeUnchanged ==
    (pc = "validated" /\ removed_items = << >>) => result = menu_data

\* C6, amended: a tree for which no removal is reported and which has no
\* category without links is returned as it is; and reconciling the result
\* again returns the result, with nothing reported.
Idempotent ==
    pc = "validated" =>
        /\ ( /\ removed_items = << >>
             /\ \A k \in 1..Len(menu_data) : menu_data[k].links # << >> )
              => result = menu_data
        /\ CleanedMenu(result, visible_ids) = result
        /\ RemovedItems(result, visible_ids) = << >>

\* a clean tree of two categories with page links was returned as it is
CleanTreeWitness ==
    /\ pc = "validated"
    /\ removed_items = << >>
    /\ Len(menu_data) = 2
    /\ \A k \in 1..Len(menu_data) :
          menu_data[k].links # << >> /\ HasPageKey(menu_data[k].links[1])
    /\ result = menu_data

\* C7: the removed-items report lists one (category, label, page-key) triple
\* per dropped link, in input order, and nothing else; kept links plus
\* reported triples are the input links.  With visible {page_84, page_95} the
\* scenario tree keeps its first two links and page_96 alone is reported.
ReportIsDroppedLinks ==
    pc = "validated" =>
        /\ removed_items = ExpectedReport
        /\ LinkCount(result) + Len(removed_items) = LinkCount(menu_data)
        /\ CleanedMenu(ScenarioTree, { page_84, page_95 })
              = << [ScenarioTree[1] EXCEPT !.links = SubSeq(ScenarioTree[1].links, 1, 2)] >>
        /\ RemovedItems(ScenarioTree, { page_84, page_95 })
              = << [category |-> "2 Weather", label |-> "Trucks", page_id |-> page_96] >>

\* links of two categories were reported, and a link was kept
ReportWitness ==
    /\ pc = "validated"
    /\ Len(removed_items) = 2
    /\ removed_items[1].category # removed_items[2].category
    /\ LinkCount(result) = 1

-----------------------------------------------------------------------------
(* Properties of save_menu.                                                *)

\* the page key is a key of a page the platform holds and the classifier
\* does not hide
VisibleOnPlatform(key) ==
    \E n \in 1..Len(platform) :
        /\ platform[n].id = key
        /\ ~should_hide_page(platform[n].id, platform[n].data)

\* the links of a menu document, as the dicts json.load gives back
DocumentLinks(doc) ==
    { [f \in DOMAIN l.fields |-> l.fields[f].value] :
        l \in UNION { { c.fields.links.items[n] : n \in 1..Len(c.fields.links.items) } :
                        c \in { doc.items[k] : k \in { j \in 1..Len(doc.items) :
                                    "links" \in DOMAIN doc.items[j].fields } } } }

\* C1: after a run of save_menu with validate_visibility true, the menu
\* written to the artifact has no link with the page key of a page that is
\* hidden or that the platform does not hold.
NoHiddenLinkSaved ==
    (pc = "saved" /\ validate_visibility) =>
        \A link \in DocumentLinks(artifact) :
            HasPageKey(link) => VisibleOnPlatform(KeyAfterLastMarker(link))

\* the request has been issued
Requested(what) == \E n \in 1..Len(requests) : requests[n] = what

\* retrieval of the page collection failed: the request raised, or the
\* response gave no page collection
RetrievalFailed ==
    \/ error = "page fetch"
    \/ Requested("pages") /\ error = None /\ exp_pages = << >> /\ platform # << >>

\* C11: when retrieval of the page collection fails, reconciliation returns
\* a tree as for an empty visible set: no link with a page key is left in it.
FetchFailurePrunes ==
    (pc \in { "validated", "saved" } /\ RetrievalFailed /\ ~LacksLinks(menu_data))
        => \A k \in 1..Len(result) : \A n \in 1..Len(result[k].links) :
              ~HasPageKey(result[k].links[n])

\* C12: when the token response has no access token, get_arcgis_token ends
\* in an error and no page-fetch request is issued.
NoFetchWithoutToken ==
    (Requested("token") /\ token = None)
        => (error = "token request" /\ ~Requested("pages"))

\* C13: when reconciliation meets a category without a links sequence, no
\* tree is returned and the malformed tree is not written to the artifact.
MalformedTreeRejected ==
    error = "KeyError"
        => (pc \notin { "validated", "saved" } /\ artifact # json_dump(menu_data))

-----------------------------------------------------------------------------
(* Properties of full_deployment.                                          *)

\* validate_menu has returned
Validated == pc \notin { "d_start", "d_validate" }

\* number of times the subprocess or request was issued
Count(what) == Cardinality({ n \in 1..Len(commands) : commands[n] = what })

\* a git command or the POST has been issued
Published ==
    \E what \in { "git status", "git add", "git commit", "git push", "POST" } : Ran(what)

\* C14: when validate_menu fails, no git command and no POST is issued and
\* full_deployment returns False.
ValidationGate ==
    (Validated /\ ~validate_menu(artifact))
        => (pc = "d_done" /\ returned = FALSE /\ ~Published)

\* a structurally wrong menu.json over a tree with changes: backed up,
\* rejected, nothing published
ValidationGateWitness ==
    /\ pc = "d_done"
    /\ artifact \notin { NoFile, InvalidJson }
    /\ ~valid
    /\ dirty
    /\ commands = << "cp" >>
    /\ returned = FALSE

\* the POSTs of one call of deploy_to_pythonanywhere on a menu.json that
\* parses: one, or none when there is no base URL to send it to
PostsOfOneCall ==
    IF get_deployment_config(config).menu_api_base_url = None THEN 0 ELSE 1

\* C15: when validation passes, both targets are attempted exactly once
\* (one git status, the POST of one call of deploy_to_pythonanywhere),
\* whatever add, commit and push did, and the outcome of the HTTP target is a
\* function of the HTTP response alone.
BothTargetsAttempted ==
    (pc = "d_done" /\ valid) =>
        /\ Count("git status") = 1
        /\ Count("POST") = PostsOfOneCall
        /\ pythonanywhere_success = (response = "2xx json")

\* the push was rejected and the POST succeeded
PushRejectedWitness ==
    /\ pc = "d_done"
    /\ valid
    /\ Ran("git push")
    /\ ~github_success
    /\ Count("POST") = 1
    /\ pythonanywhere_success

\* C16: the value full_deployment returns tells the caller the outcome of
\* each target: no other pair of outcomes gives the same value.
ResultTellsOutcomes ==
    (pc = "d_done" /\ valid) =>
        \A github \in BOOLEAN : \A pythonanywhere \in BOOLEAN :
            Summary(github, pythonanywhere) = returned
                => (github = github_success /\ pythonanywhere = pythonanywhere_success)

\* C17: when validation passes, full_deployment returns True if and only if
\* deploy_to_github and deploy_to_pythonanywhere both returned True.
ResultIsConjunction ==
    (pc = "d_done" /\ valid) =>
        (returned = TRUE <=> (github_success = TRUE /\ pythonanywhere_success = TRUE))

\* one target succeeded, the other failed, and the run reports failure
OneTargetFailedWitness ==
    /\ pc = "d_done"
    /\ valid
    /\ github_success
    /\ ~pythonanywhere_success
    /\ returned = FALSE

\* the copy command was run and left no backup
BackupFailed == pc # "d_start" /\ Ran("cp") /\ backups = {}

\* C18: after a failed backup the run goes on: validate_menu is applied to
\* the artifact, and if it passes both targets are attempted and the result
\* is computed from their outcomes, as after a backup that succeeded.
BackupFailureDoesNotBlock ==
    BackupFailed =>
        /\ Validated => valid = validate_menu(artifact)
        /\ pc = "d_done" =>
              IF valid
              THEN /\ Count("git status") = 1
                   /\ Count("POST") = PostsOfOneCall
                   /\ returned = (github_success /\ pythonanywhere_success)
              ELSE returned = FALSE /\ ~Published

\* the backup failed and the deployment succeeded on both targets
BackupFailedWitness ==
    /\ BackupFailed
    /\ pc = "d_done"
    /\ valid
    /\ Ran("git push")
    /\ returned = TRUE

\* C19: no write to menu.json happens before a backup of the content it
\* overwrites exists: after save_menu the previous content is in a backup.
BackupBeforeWrite ==
    pc = "saved" => json_dump(PreviousMenu) \in backups

\* the value is a record with the fields
HasFields(value, fields) == value.type = "dict" /\ fields \subseteq DOMAIN value.fields

\* the artifact is a sequence of categories, each a record with category,
\* color and links, links a sequence of records with label, href and term
WellFormedMenu(doc) ==
    /\ doc \notin { NoFile, InvalidJson }
    /\ doc.type = "list"
    /\ \A k \in 1..Len(doc.items) :
          /\ HasFields(doc.items[k], { "category", "color", "links" })
          /\ doc.items[k].fields.links.type = "list"
          /\ \A n \in 1..Len(doc.items[k].fields.links.items) :
                HasFields(doc.items[k].fields.links.items[n], { "label", "href", "term" })

\* C20: validate_menu accepts the artifact if and only if it is a well-formed
\* menu; a missing file and unparsable JSON are rejected; validation does not
\* modify the artifact.
ValidatesWellFormedOnly ==
    /\ [](Validated => valid = WellFormedMenu(artifact))
    /\ [][pc = "d_validate" => artifact' = artifact]_vars

\* a menu of two categories was accepted
AcceptedWitness ==
    /\ Validated
    /\ valid
    /\ artifact.type = "list"
    /\ Len(artifact.items) = 2
    /\ Len(artifact.items[2].fields.links.items) = 2

\* deploy_to_pythonanywhere has returned
HttpDone == pc \in { "d_summary", "d_done" }

\* C21: deploy_to_pythonanywhere returns True if and only if the POST of the
\* artifact received a 2xx status; every other outcome is False, returned as
\* a value.
HttpSuccessIffStatus2xx ==
    HttpDone =>
        (pythonanywhere_success = TRUE
            <=> (Ran("POST") /\ response \in { "2xx json", "2xx other" }))

\* a credential of the token exchange is absent from the .env file
MissingArcgisCredential ==
    \E k \in { "ARCGIS_CLIENT_ID", "ARCGIS_CLIENT_SECRET" } : k \notin DOMAIN config

\* a credential of the HTTP publish is absent from the .env file
MissingMenuApiCredential ==
    \E k \in { "MENU_API_BASE_URL", "MENU_API_PASSWORD" } : k \notin DOMAIN config

\* C22: when a credential of the operation is absent, the operation fails
\* before any network request: no token request without client id and
\* secret, no POST without base URL and password.
MissingCredentialStopsIO ==
    /\ MissingArcgisCredential => (~Requested("token") /\ ~Requested("pages"))
    /\ MissingMenuApiCredential => ~Ran("POST")

\* the page fetch was answered without a 'pages' key
NoPageCollection ==
    Requested("pages") /\ error # "page fetch" /\ exp_pages = << >>

\* C23: when the response has no page collection, get_visible_pages returns
\* an empty dict without raising, the visible set is empty, and the tree
\* reconciliation returns has no link with a page key.
MissingCollectionIsZeroPages ==
    NoPageCollection =>
        /\ visible_pages = << >>
        /\ error = None => pc # "except"
        /\ pc \in { "reconcile", "except", "validated", "saved" } => visible_ids = {}
        /\ (pc \in { "validated", "saved" } /\ error = None) =>
              \A k \in 1..Len(result) : \A n \in 1..Len(result[k].links) :
                  ~HasPageKey(result[k].links[n])

\* without page collection, a page link was removed and another link stayed
MissingCollectionWitness ==
    /\ NoPageCollection
    /\ pc = "validated"
    /\ error = None
    /\ removed_items # << >>
    /\ result # << >>

\* C24: without experience id, validate_menu_visibility returns the input
\* tree unchanged, no token or page request is issued, and save_menu writes
\* that tree.
SkipLeavesTreeUnchanged ==
    (experience_id = None /\ validate_visibility /\ pc \in { "validated", "saved" }) =>
        /\ result = menu_data
        /\ requests = << >>
        /\ error = None
        /\ pc = "saved" => artifact = json_dump(menu_data)

\* a tree with a page link and a category without links was written as it is
SkipWitness ==
    /\ experience_id = None
    /\ validate_visibility
    /\ pc = "saved"
    /\ ~LacksLinks(menu_data)
    /\ \E k \in 1..Len(menu_data) : menu_data[k].links = << >>
    /\ \E k \in 1..Len(menu_data) : \E n \in 1..Len(menu_data[k].links) :
          HasPageKey(menu_data[k].links[n])
    /\ artifact = json_dump(menu_data)

\* the run is past deploy_to_github
VcsDone == pc \in { "d_http", "d_summary", "d_done" }

\* C25: when the status check reports no changes, deploy_to_github returns
\* True without add, commit or push, and the repository is left as it was.
NoChangesIsNoOp ==
    /\ []((VcsDone /\ valid /\ ~Ran("git add"))
            => (github_success /\ ~Ran("git commit") /\ ~Ran("git push")))
    /\ [][(pc = "d_status" /\ pc' = "d_http")
            => (UNCHANGED gitVars /\ commands' = Append(commands, "git status"))]_vars
    /\ [][(VcsDone /\ pc' # "d_start") => UNCHANGED gitVars]_vars

\* a run on a clean repository: one status check, success, nothing else
NoChangesWitness ==
    /\ pc = "d_done"
    /\ valid
    /\ Count("git status") = 1
    /\ ~Ran("git add")
    /\ github_success
    /\ ~dirty
    /\ ~unpushed

IsGitCommand(what) == what \in { "git status", "git add", "git commit", "git push" }

\* the git commands of the run, in the order they were issued
GitLog == SelectSeq(commands, IsGitCommand)

GitSequence == << "git status", "git add", "git commit", "git push" >>

\* C26: with pending changes add, commit and push run in that order, each at
\* most once; commit is attempted only after add succeeded and push only
\* after commit succeeded; the first failing step ends deploy_to_github with
\* False, and it returns True only if the push succeeded.
StageCommitPushInOrder ==
    /\ Len(GitLog) <= Len(GitSequence)
    /\ \A n \in 1..Len(GitLog) : GitLog[n] = GitSequence[n]
    /\ pc = "d_commit" => (success /\ Last(GitLog) = "git add")
    /\ pc = "d_push" => (success /\ Last(GitLog) = "git commit")
    /\ (VcsDone /\ Ran("git add")) =>
          /\ github_success = success
          /\ github_success => (Last(GitLog) = "git push" /\ ~unpushed)

\* add, commit and push all ran and the push succeeded
PushedWitness ==
    /\ pc = "d_done"
    /\ GitLog = GitSequence
    /\ github_success
    /\ ~unpushed

\* the stage of full_deployment the run is in
Stage ==
    CASE pc = "d_start" -> "START"
      [] pc = "d_validate" -> "BACKED_UP"
      [] pc = "d_status" -> "VALIDATED"
      [] pc \in { "d_add", "d_commit", "d_push", "d_http", "d_summary" } -> "PUBLISHING"
      [] pc = "d_done" -> "DONE"

\* the moves from stage to stage; DONE to START is the start of another run
StageOrder ==
    { << "START", "BACKED_UP" >>, << "BACKED_UP", "VALIDATED" >>, << "BACKED_UP", "DONE" >>,
      << "VALIDATED", "PUBLISHING" >>, << "PUBLISHING", "DONE" >>, << "DONE", "START" >> }

\* position of a subprocess or request in a run: backup, VCS publish, HTTP
StepOf(what) == IF what = "cp" THEN "a" ELSE IF what = "POST" THEN "c" ELSE "b"

\* C27: a run goes through START, BACKED_UP, VALIDATED, PUBLISHING, DONE in
\* that order, leaving out VALIDATED and PUBLISHING only when validation
\* fails; backup, VCS publish and HTTP publish follow one another; every run
\* reaches DONE with a returned result.
StagesInOrder ==
    /\ [][Stage' # Stage => (<< Stage, Stage' >> \in StageOrder
                             /\ (Stage = "BACKED_UP" => (Stage' = "DONE" <=> ~valid')))]_vars
    /\ [](\A m, n \in 1..Len(commands) :
            m < n => << StepOf(commands[m]), StepOf(commands[n]) >>
                        \in { << "a", "b" >>, << "a", "c" >>, << "b", "b" >>, << "b", "c" >> })
    /\ [](Published => valid)
    /\ [](pc = "d_done" => returned = (valid /\ github_success /\ pythonanywhere_success))
    /\ (pc = "d_start") ~> (pc = "d_done")

\* a run with backup, all git steps and the POST, finished with True
FullRunWitness ==
    /\ pc = "d_done"
    /\ commands = << "cp", "git status", "git add", "git commit", "git push", "POST" >>
    /\ returned = TRUE

\* C28: whenever deploy_to_github reports success, the remote holds what the
\* working tree holds: no change is uncommitted and no commit unpushed.
VcsSuccessMeansPushed ==
    (VcsDone /\ valid /\ github_success) => (~dirty /\ ~unpushed)

====
